---------------------------- MODULE Spec2Model ----------------------------
(***************************************************************************)
(* Model of skills/feishu-mail/scripts/feishu_mail.py: one run of main()   *)
(* against an IMAP server.  The server (select / search / fetch / list     *)
(* responses, the mailbox size, the fetched message) is the environment    *)
(* and is chosen nondeterministically; the script's handlers are the       *)
(* actions.  Text is modelled as sequences of one-character strings so     *)
(* that splitting, stripping, slicing and int() are computed, not assumed. *)
(***************************************************************************)
EXTENDS Integers, Sequences, FiniteSets, TLC

VARIABLES
    argv,      \* sys.argv[1:], a sequence of texts
    N,         \* number of messages in INBOX on the server
    pc,        \* position of main()
    count,     \* get_recent_emails' count argument
    matches,   \* ids the server returned for the search (server order)
    todo,      \* ids the batch loop has still to visit
    emails,    \* the batch loop's accumulator (the 'id' of each summary)
    log,       \* operations issued on the session, in order
    result,    \* value the query function returned to main
    failed,    \* the query function left through an error return
    fetched,   \* the message read_email parsed (NoneVal before)
    listing,   \* the entries the server listed for get_folder_list
    exit       \* how the process ended ("running" until then)

vars == <<argv, N, pc, count, matches, todo, emails, log, result, failed,
          fetched, listing, exit>>

---------------------------------------------------------------------------
(* Bounds of the model and constants of the program *)

MaxMsgs == 12

MaxFolders == 2

MaxParts == 2

MaxResults == 10

DefaultCount == 5

BodyLimit == 2000

\* Python values the query functions return: None, a list, a dict
NoneVal == [kind |-> "None"]

ListVal(items) == [kind |-> "list", items |-> items]

DictVal(body) == [kind |-> "dict", body |-> body]

Min(a, b) == IF a < b THEN a ELSE b

Max(a, b) == IF a > b THEN a ELSE b

---------------------------------------------------------------------------
(* Text helpers: Python str operations on sequences of characters *)

Digits == {"0", "1", "2", "3", "4", "5", "6", "7", "8", "9"}

DigitVal(c) ==
    CASE c = "0" -> 0 [] c = "1" -> 1 [] c = "2" -> 2 [] c = "3" -> 3
      [] c = "4" -> 4 [] c = "5" -> 5 [] c = "6" -> 6 [] c = "7" -> 7
      [] c = "8" -> 8 [] c = "9" -> 9

RECURSIVE DecVal(_)
DecVal(s) ==
    IF s = <<>> THEN 0
    ELSE 10 * DecVal(SubSeq(s, 1, Len(s) - 1)) + DigitVal(s[Len(s)])

AllDigits(s) == s # <<>> /\ \A i \in 1..Len(s) : s[i] \in Digits

\* int(text): [ok |-> FALSE] stands for the ValueError int() raises
ParseInt(s) ==
    IF AllDigits(s) THEN [ok |-> TRUE, val |-> DecVal(s)]
    ELSE IF s # <<>> /\ s[1] = "-" /\ AllDigits(Tail(s))
         THEN [ok |-> TRUE, val |-> 0 - DecVal(Tail(s))]
         ELSE [ok |-> FALSE, val |-> 0]

\* text.split(sep): the pieces between occurrences of sep, empty ones kept
RECURSIVE SplitFrom(_, _, _)
SplitFrom(s, sep, cur) ==
    IF s = <<>> THEN <<cur>>
    ELSE IF Head(s) = sep THEN <<cur>> \o SplitFrom(Tail(s), sep, <<>>)
         ELSE SplitFrom(Tail(s), sep, Append(cur, Head(s)))

Split(s, sep) == SplitFrom(s, sep, <<>>)

RECURSIVE LStrip(_, _)
LStrip(s, chars) ==
    IF s # <<>> /\ Head(s) \in chars THEN LStrip(Tail(s), chars) ELSE s

RECURSIVE RStrip(_, _)
RStrip(s, chars) ==
    IF s # <<>> /\ s[Len(s)] \in chars
    THEN RStrip(SubSeq(s, 1, Len(s) - 1), chars) ELSE s

\* text.strip() and text.strip('"')
Strip(s, chars) == RStrip(LStrip(s, chars), chars)

Last(s) == s[Len(s)]

Range(a, b) == [i \in 1..Max(b - a + 1, 0) |-> a + i - 1]

---------------------------------------------------------------------------
(* Messages: the MIME tree email.message_from_bytes builds *)

Leaf(ctype, payload) ==
    [kind |-> "msg", ctype |-> ctype, parts |-> <<>>, payload |-> payload]

Multi(parts) ==
    [kind |-> "msg", ctype |-> "multipart/mixed", parts |-> parts,
     payload |-> <<>>]

\* "#" stands for a byte sequence that is not valid UTF-8
PayloadA == <<"a", "#", "b">>

PayloadB == <<"c">>

PayloadLong == [i \in 1..(BodyLimit + 2) |-> IF i = 1 THEN "#" ELSE "d"]

PayloadHtml == <<"<", "p", ">">>

Leaves ==
    {Leaf("text/plain", PayloadA), Leaf("text/plain", PayloadB),
     Leaf("text/plain", PayloadLong), Leaf("text/html", PayloadHtml)}

InnerMultis ==
    {Multi(<<Leaf("text/html", PayloadHtml), Leaf("text/plain", PayloadB)>>),
     Multi(<<Leaf("text/html", PayloadHtml)>>)}

SeqsUpTo(S, n) == UNION {[1..k -> S] : k \in 1..n}

Messages ==
    Leaves \cup {Multi(ps) : ps \in SeqsUpTo(Leaves \cup InnerMultis, MaxParts)}

\* msg.is_multipart(): the payload is a list of sub-messages
IsMultipart(m) == m.parts # <<>>

\* msg.walk(): the message itself, then each sub-part, depth first
RECURSIVE Walk(_)
RECURSIVE WalkAll(_)
Walk(m) == <<m>> \o WalkAll(m.parts)
WalkAll(ps) == IF ps = <<>> THEN <<>> ELSE Walk(Head(ps)) \o WalkAll(Tail(ps))

\* bytes.decode('utf-8', errors='ignore'): invalid bytes are dropped
DecodeIgnore(payload) == SelectSeq(payload, LAMBDA c : c # "#")

\* body[:2000]
Truncate(body) == SubSeq(body, 1, Min(Len(body), BodyLimit))

RECURSIVE FirstPlainBody_NoBreak(_)
FirstPlainBody_NoBreak(ps) ==
    IF ps = <<>> THEN <<>>
    ELSE IF Last(ps).ctype = "text/plain"
         THEN DecodeIgnore(Last(ps).payload)
         ELSE FirstPlainBody_NoBreak(SubSeq(ps, 1, Len(ps) - 1))

\* The for/break loop of read_email over msg.walk().  get_payload(decode=True)
\* returns bytes for every non-multipart part of a parsed message, so the
\* try block of lines 256-258 always reaches its break.
RECURSIVE FirstPlainBody(_)
FirstPlainBody(ps) ==
    IF ps = <<>> THEN <<>>
    ELSE IF Head(ps).ctype = "text/plain"
         THEN DecodeIgnore(Head(ps).payload)
         ELSE FirstPlainBody(Tail(ps))

ParseBody(m) ==
    IF IsMultipart(m) THEN FirstPlainBody(Walk(m))
    ELSE DecodeIgnore(m.payload)

\* The dict read_email returns; only its 'body' entry is modelled, the
\* envelope entries (from_name, from_addr, subject, date) are left out.
MessageDetail(m) == DictVal(Truncate(ParseBody(m)))

---------------------------------------------------------------------------
(* Folder listing: get_folder_list's parsing of the LIST response lines *)

KeyArchive == <<"&", "X", "f", "J", "f", "U", "m", "h", "j", "-">>

KeyJunk == <<"&", "V", "4", "N", "X", "P", "p", "C", "u", "T", "v", "Y", "-">>

KeyTrash == <<"&", "X", "f", "J", "S", "I", "J", "Z", "k", "-">>

KeySent == <<"&", "X", "f", "J", "T", "0", "Z", "A", "B", "-">>

KeyDrafts == <<"&", "g", "0", "l", "6", "P", "3", "u", "x", "-">>

MappedKeys == {KeyArchive, KeyJunk, KeyTrash, KeySent, KeyDrafts}

\* folder_map: the static table of lines 57-63
FolderMap(token) ==
    CASE token = KeyArchive -> <<"A", "r", "c", "h", "i", "v", "e">>
      [] token = KeyJunk -> <<"J", "u", "n", "k">>
      [] token = KeyTrash -> <<"T", "r", "a", "s", "h">>
      [] token = KeySent -> <<"S", "e", "n", "t">>
      [] token = KeyDrafts -> <<"D", "r", "a", "f", "t", "s">>

\* folder_map.get(folder_path, folder_path)
FolderMapGet(token) ==
    IF token \in MappedKeys THEN FolderMap(token) ELSE token

NameInbox == <<"I", "N", "B", "O", "X">>

NameNested == <<"W", "o", "r", "k", "/", "N", "o", "t", "e", "s">>

Quote == "\""

Whitespace == {" ", "\t"}

\* One LIST response line as the server sends it: (flags) delimiter name.
\* The delimiter is a quoted character or NIL; the name is sent quoted or
\* as a bare atom.
Flags == <<"(", "\\", "H", "a", "s", "N", "o", "C", "h", "i", "l", "d", "r", "e", "n", ")">>

DelimText(delim) ==
    IF delim = "NIL" THEN <<"N", "I", "L">> ELSE <<Quote, delim, Quote>>

NameText(name, quoted) ==
    IF quoted THEN <<Quote>> \o name \o <<Quote>> ELSE name

Render(e) ==
    Flags \o <<" ">> \o DelimText(e.delim) \o <<" ">>
          \o NameText(e.name, e.quoted)

FolderNames == MappedKeys \cup {NameInbox, NameNested}

Entries ==
    [name : FolderNames, quoted : BOOLEAN, delim : {"/", "NIL"}]

Listings == SeqsUpTo(Entries, MaxFolders)

\* The body of get_folder_list's loop for one decoded line (lines 51-66)
FolderName(line) ==
    LET parts == Split(line, Quote)
    IN  IF Len(parts) >= 3
        THEN FolderMapGet(parts[Len(parts) - 1])
        ELSE Strip(Strip(Last(Split(line, "/")), Whitespace), {Quote})

\* get_folder_list on a listing the server returned
FolderList(lines) == [i \in 1..Len(lines) |-> FolderName(lines[i])]


---------------------------------------------------------------------------
(* Inputs and server responses *)

Commands == {"recent", "search", "unread", "folders", "read"}

BatchCommands == {"recent", "search", "unread"}

CountTexts == {<<"0">>, <<"3">>, <<"1", "3">>, <<"-", "1">>, <<"x">>}

Keywords == {<<"a", "b">>}

IdTexts == {<<"2">>, <<"0">>, <<"1", "3">>, <<"x">>}

ArgvSet ==
    {<<>>, <<"recent">>, <<"search">>, <<"unread">>, <<"folders">>,
     <<"read">>, <<"bogus">>}
    \cup {<<"recent", c>> : c \in CountTexts}
    \cup {<<"search", k>> : k \in Keywords}
    \cup {<<"read", i>> : i \in IdTexts}

\* select and search answer OK or NO, or imaplib raises
StatusOutcomes == {"OK", "NO", "raise"}

\* What one fetch can bring back:
\*   msg        OK with the message literal, which parses
\*   badsubject OK with the message literal, decode_subject raises
\*              LookupError on an unknown charset of the Subject header
\*   noliteral  OK with a response line that carries no literal, so
\*              msg_data[0][1] is not bytes and message_from_bytes raises
\*   nodata     OK with [None]
\*   NO         a status other than OK
\*   raise      imaplib raises (BAD response, connection lost)
\* A sequence number outside 1..N names no message: no literal comes back.
FetchOutcomes(exists) ==
    IF exists THEN {"msg", "badsubject", "noliteral", "nodata", "NO", "raise"}
    ELSE {"nodata", "NO", "raise"}

\* Ids a search can return, ascending: the first b messages of the folder
SearchResults(n) == {Range(1, b) : b \in 0..n}

\* The message a textual id names, if any: the server reads it as a number
Exists(idText, n) ==
    LET p == ParseInt(idText) IN p.ok /\ p.val \in 1..n

LogEntry(op, id, res) == [op |-> op, id |-> id, res |-> res]

\* What the session log keeps of a fetch issued by a batch loop:
\* whether it brought back a message that parsed
FetchClass(o) == IF o = "msg" THEN "msg" ELSE "fail"

---------------------------------------------------------------------------
(* The query functions' decisions *)

StatusFailed_Unchecked(status) == FALSE

\* status != 'OK' after mail.select / mail.search
StatusFailed(status) == status # "OK"

RecentRange_ZeroBased(num, cnt) == [k \in 1..Max(cnt, 0) |-> num - k]

RecentRange_Ascending(num, cnt) == [k \in 1..Max(cnt, 0) |-> num - cnt + k]

\* range(num_messages, num_messages - count, -1)
RecentRange(num, cnt) == [k \in 1..Max(cnt, 0) |-> num - k + 1]

LastTen_FirstTen(ids) == SubSeq(ids, 1, Min(Len(ids), MaxResults))

\* email_ids[-10:]
LastTen(ids) == SubSeq(ids, Max(Len(ids) - MaxResults + 1, 1), Len(ids))

\* status == 'OK' and msg_data and msg_data[0]
HasData(o) == o \in {"msg", "badsubject", "noliteral"}

\* message_from_bytes / decode_subject raise on what was fetched
ParseRaises(o) == o \in {"badsubject", "noliteral"}

AfterItemError_Break(rest) == <<>>

\* except Exception: continue  -- the loop goes on with the next id
AfterItemError(rest) == Tail(rest)

\* The error returns: [] of the batch functions, None of read_email
ErrorReturn(cmd) == IF cmd = "read" THEN NoneVal ELSE ListVal(<<>>)

ReadOnError_EmptyDetail == DictVal(<<>>)

\* except Exception of read_email: return None
ReadOnError == NoneVal

---------------------------------------------------------------------------
(* main() *)

Init ==
    /\ argv \in ArgvSet
    /\ N \in 0..MaxMsgs
    /\ pc = "start"
    /\ count = 0
    /\ matches = <<>>
    /\ todo = <<>>
    /\ emails = <<>>
    /\ log = <<>>
    /\ result = NoneVal
    /\ failed = FALSE
    /\ fetched = NoneVal
    /\ listing = <<>>
    /\ exit = "running"

\* len(sys.argv) < 2: print the usage and sys.exit(1)
Usage ==
    /\ pc = "start"
    /\ Len(argv) < 1
    /\ pc' = "exited"
    /\ exit' = "exit1"
    /\ UNCHANGED <<argv, N, count, matches, todo, emails, log, result,
                   failed, fetched, listing>>

\* connect_mailbox: the session, or sys.exit(1) when connecting fails
Connect ==
    /\ pc = "start"
    /\ Len(argv) >= 1
    /\ \E ok \in BOOLEAN :
       IF ok
       THEN /\ log' = Append(log, LogEntry("login", 0, "OK"))
            /\ pc' = "dispatch"
            /\ exit' = exit
       ELSE /\ log' = log
            /\ pc' = "exited"
            /\ exit' = "exit1"
    /\ UNCHANGED <<argv, N, count, matches, todo, emails, result, failed,
                   fetched, listing>>

\* command == "recent": int(sys.argv[2]) raises ValueError on a non-number
DispatchRecent ==
    /\ pc = "dispatch"
    /\ argv[1] = "recent"
    /\ IF Len(argv) > 1
       THEN LET p == ParseInt(argv[2])
            IN  IF p.ok
                THEN count' = p.val /\ pc' = "select" /\ exit' = exit
                ELSE count' = count /\ pc' = "exited" /\ exit' = "traceback"
       ELSE count' = DefaultCount /\ pc' = "select" /\ exit' = exit
    /\ UNCHANGED <<argv, N, matches, todo, emails, log, result, failed,
                   fetched, listing>>

\* command == "search" / "read": sys.exit(1) when the argument is missing
DispatchWithArg ==
    /\ pc = "dispatch"
    /\ argv[1] \in {"search", "read"}
    /\ IF Len(argv) < 2
       THEN pc' = "exited" /\ exit' = "exit1"
       ELSE pc' = "select" /\ exit' = exit
    /\ UNCHANGED <<argv, N, count, matches, todo, emails, log, result,
                   failed, fetched, listing>>

DispatchUnread ==
    /\ pc = "dispatch"
    /\ argv[1] = "unread"
    /\ pc' = "select"
    /\ UNCHANGED <<argv, N, count, matches, todo, emails, log, result,
                   failed, fetched, listing, exit>>

DispatchFolders ==
    /\ pc = "dispatch"
    /\ argv[1] = "folders"
    /\ pc' = "list"
    /\ UNCHANGED <<argv, N, count, matches, todo, emails, log, result,
                   failed, fetched, listing, exit>>

\* else: print "unknown command" and fall through to mail.logout()
DispatchUnknown ==
    /\ pc = "dispatch"
    /\ argv[1] \notin Commands
    /\ pc' = "logout"
    /\ UNCHANGED <<argv, N, count, matches, todo, emails, log, result,
                   failed, fetched, listing, exit>>

\* mail.select(folder) at the head of the four query functions
SelectStep(o) ==
    /\ log' = Append(log, LogEntry("select", 0, o))
    /\ IF o = "raise" \/ StatusFailed(o)
       THEN /\ result' = ErrorReturn(argv[1])
            /\ failed' = TRUE
            /\ pc' = "print"
            /\ todo' = todo
       ELSE /\ result' = result
            /\ failed' = failed
            /\ IF argv[1] = "recent"
               THEN todo' = RecentRange(N, count) /\ pc' = "loop"
               ELSE /\ todo' = todo
                    /\ pc' = IF argv[1] = "read" THEN "fetch" ELSE "search"
    /\ UNCHANGED <<argv, N, count, matches, emails, fetched, listing, exit>>

Select ==
    /\ pc = "select"
    /\ \E o \in StatusOutcomes : SelectStep(o)

\* mail.search(...) of search_emails and get_unread_emails, up to the loop
SearchStep(o, ids) ==
    /\ log' = Append(log, LogEntry("search", 0, o))
    /\ IF o = "raise" \/ StatusFailed(o)
       THEN /\ result' = ListVal(<<>>)
            /\ failed' = TRUE
            /\ pc' = "print"
            /\ UNCHANGED <<matches, todo>>
       ELSE /\ matches' = ids
            /\ failed' = failed
            /\ IF argv[1] = "unread" /\ ids = <<>>
               THEN result' = ListVal(<<>>) /\ pc' = "print" /\ todo' = todo
               ELSE result' = result /\ pc' = "loop" /\ todo' = LastTen(ids)
    /\ UNCHANGED <<argv, N, count, emails, fetched, listing, exit>>

Search ==
    /\ pc = "search"
    /\ \E o \in StatusOutcomes :
          \E ids \in (IF o = "OK" THEN SearchResults(N) ELSE {<<>>}) :
             SearchStep(o, ids)

\* One iteration of the batch loops (lines 86-114, 139-163, 191-215)
FetchItemStep(o) ==
    /\ log' = Append(log, LogEntry("fetch", Head(todo), FetchClass(o)))
    /\ IF o = "raise"
       THEN todo' = AfterItemError(todo) /\ emails' = emails
       ELSE IF HasData(o)
            THEN IF ParseRaises(o)
                 THEN todo' = AfterItemError(todo) /\ emails' = emails
                 ELSE todo' = Tail(todo) /\ emails' = Append(emails, Head(todo))
            ELSE todo' = Tail(todo) /\ emails' = emails
    /\ UNCHANGED <<argv, N, pc, count, matches, result, failed, fetched,
                   listing, exit>>

FetchItem ==
    /\ pc = "loop"
    /\ todo # <<>>
    /\ \E o \in FetchOutcomes(Head(todo) \in 1..N) : FetchItemStep(o)

\* return emails
ReturnEmails ==
    /\ pc = "loop"
    /\ todo = <<>>
    /\ result' = ListVal(emails)
    /\ pc' = "print"
    /\ UNCHANGED <<argv, N, count, matches, todo, emails, log, failed,
                   fetched, listing, exit>>

\* read_email after its select: the single fetch, the parse, the return
ReadFetchStep(o, m) ==
    /\ log' = Append(log, LogEntry("fetch", argv[2], o))
    /\ IF o = "raise"
       THEN result' = ReadOnError /\ failed' = TRUE /\ fetched' = fetched
       ELSE IF ~HasData(o)
            THEN result' = NoneVal /\ failed' = TRUE /\ fetched' = fetched
            ELSE IF ParseRaises(o)
                 THEN /\ result' = ReadOnError
                      /\ failed' = TRUE
                      /\ fetched' = fetched
                 ELSE /\ result' = MessageDetail(m)
                      /\ failed' = failed
                      /\ fetched' = m
    /\ pc' = "print"
    /\ UNCHANGED <<argv, N, count, matches, todo, emails, listing, exit>>

ReadFetch ==
    /\ pc = "fetch"
    /\ \E o \in FetchOutcomes(Exists(argv[2], N)) :
          \E m \in (IF o = "msg" THEN Messages ELSE {NoneVal}) :
             ReadFetchStep(o, m)

\* get_folder_list: mail.list() raises, answers [None] (no folder: the
\* decode of None raises), or answers one line per folder
ListFoldersStep(o, entries) ==
    /\ log' = Append(log, LogEntry("list", 0, o))
    /\ IF o = "OK"
       THEN /\ listing' = entries
            /\ result' =
                 ListVal(FolderList([i \in 1..Len(entries) |-> Render(entries[i])]))
            /\ failed' = failed
       ELSE /\ listing' = listing
            /\ result' = ListVal(<<>>)
            /\ failed' = TRUE
    /\ pc' = "print"
    /\ UNCHANGED <<argv, N, count, matches, todo, emails, fetched, exit>>

ListFolders ==
    /\ pc = "list"
    /\ \E o \in {"OK", "none", "raise"} :
          \E entries \in (IF o = "OK" THEN Listings ELSE {<<>>}) :
             ListFoldersStep(o, entries)

\* print_emails_table: `',' in date` raises TypeError when a listed message
\* has no Date header (its 'date' is None); nothing in main catches it
PrintTable ==
    /\ pc = "print"
    /\ argv[1] \in BatchCommands
    /\ \E dateMissing \in BOOLEAN :
       IF result.items # <<>> /\ dateMissing
       THEN pc' = "exited" /\ exit' = "traceback"
       ELSE pc' = "logout" /\ exit' = exit
    /\ UNCHANGED <<argv, N, count, matches, todo, emails, log, result,
                   failed, fetched, listing>>

\* the printing of the folders and read branches
PrintOther ==
    /\ pc = "print"
    /\ argv[1] \in {"folders", "read"}
    /\ pc' = "logout"
    /\ UNCHANGED <<argv, N, count, matches, todo, emails, log, result,
                   failed, fetched, listing, exit>>

\* mail.logout(), the last statement of main
Logout ==
    /\ pc = "logout"
    /\ log' = Append(log, LogEntry("logout", 0, "OK"))
    /\ pc' = "exited"
    /\ exit' = "exit0"
    /\ UNCHANGED <<argv, N, count, matches, todo, emails, result, failed,
                   fetched, listing>>

Next ==
    \/ Usage
    \/ Connect
    \/ DispatchRecent
    \/ DispatchWithArg
    \/ DispatchUnread
    \/ DispatchFolders
    \/ DispatchUnknown
    \/ Select
    \/ Search
    \/ FetchItem
    \/ ReturnEmails
    \/ ReadFetch
    \/ ListFolders
    \/ PrintTable
    \/ PrintOther
    \/ Logout

Spec == Init /\ [][Next]_vars


---------------------------------------------------------------------------
(* Views of a run used by the properties *)

Cmd == IF argv = <<>> THEN "" ELSE argv[1]

LogOps(op) == SelectSeq(log, LAMBDA e : e.op = op)

Fetches == LogOps("fetch")

FetchIds == [i \in 1..Len(Fetches) |-> Fetches[i].id]

Connected == LogOps("login") # <<>>

SelectOK == \E i \in 1..Len(log) : log[i].op = "select" /\ log[i].res = "OK"

SelectNotOK == \E i \in 1..Len(log) : log[i].op = "select" /\ log[i].res # "OK"

SearchOK == \E i \in 1..Len(log) : log[i].op = "search" /\ log[i].res = "OK"

\* the query function of the command has returned to main
Returned ==
    /\ pc \in {"print", "logout", "exited"}
    /\ \E i \in 1..Len(log) : log[i].op \in {"select", "list"}

IsPrefix(s, t) == Len(s) <= Len(t) /\ s = SubSeq(t, 1, Len(s))

---------------------------------------------------------------------------
(* C1 *)

\* C1: whenever connect_mailbox succeeded and the process has ended, logout
\* was invoked on the session exactly once, whatever the exit path.
C1_LogoutOnEveryExit ==
    (pc = "exited" /\ Connected) => Len(LogOps("logout")) = 1

---------------------------------------------------------------------------
(* C2 *)

\* C2: once a batch operation has its candidate ids, it fetches every
\* candidate in order (an item's failure never ends the loop), returns
\* exactly the candidates whose fetch and parse succeeded, in candidate
\* order, and does not report a failure.
C2_BatchKeepsExactlyTheSuccesses ==
    (Returned /\ Cmd \in BatchCommands /\ SelectOK
        /\ (Cmd = "recent" \/ SearchOK))
    => LET cand == IF Cmd = "recent" THEN RecentRange(N, count)
                   ELSE LastTen(matches)
           good == SelectSeq(Fetches, LAMBDA e : e.res = "msg")
       IN  /\ FetchIds = cand
           /\ result = ListVal([i \in 1..Len(good) |-> good[i].id])
           /\ ~failed

C2_Witness ==
    /\ Returned
    /\ Cmd = "search"
    /\ result.items # <<>>
    /\ \E i, j \in 1..Len(Fetches) :
          i < j /\ Fetches[i].res = "fail" /\ Fetches[j].res = "msg"

---------------------------------------------------------------------------
(* C3 *)

\* C3: read_email returns None when the select fails, when the fetch fails
\* or brings no data, and when parsing raises; it returns a detail only
\* for message data fetched for an existing id, never for a missing one.
C3_ReadNotFound ==
    (Returned /\ Cmd = "read")
    => LET bad(e) == e.res \in {"raise", "NO", "nodata", "badsubject",
                                "noliteral"}
       IN  /\ (~SelectOK \/ \E i \in 1..Len(Fetches) : bad(Fetches[i]))
                => (result = NoneVal /\ failed)
           /\ result # NoneVal
                => /\ result.kind = "dict"
                   /\ Len(Fetches) = 1
                   /\ Fetches[1].res = "msg"
                   /\ Fetches[1].id = argv[2]
           /\ ~Exists(argv[2], N) => result = NoneVal

C3_Witness ==
    /\ Returned
    /\ Cmd = "read"
    /\ SelectOK
    /\ ~Exists(argv[2], N)
    /\ Len(Fetches) = 1
    /\ Fetches[1].res = "raise"
    /\ result = NoneVal

---------------------------------------------------------------------------
(* C4 *)

\* C4: for the id sequence S the search returned, search_emails and
\* get_unread_emails fetch exactly the last min(10, |S|) ids of S, in the
\* order of S, return at most 10 summaries, all from those ids, and
\* get_unread_emails issues no fetch when S is empty.
C4_LastTenOnly ==
    (Cmd \in {"search", "unread"} /\ SearchOK)
    => LET k == Min(MaxResults, Len(matches))
           lastTen == [i \in 1..k |-> matches[Len(matches) - k + i]]
       IN  /\ IsPrefix(FetchIds, lastTen)
           /\ Returned
                => /\ FetchIds = lastTen
                   /\ Len(result.items) <= MaxResults
                   /\ \A i \in 1..Len(result.items) :
                         \E j \in 1..k : result.items[i] = lastTen[j]
           /\ (Cmd = "unread" /\ matches = <<>>)
                => (Fetches = <<>> /\ result = ListVal(<<>>))

C4_Witness ==
    /\ Returned
    /\ Cmd = "search"
    /\ SearchOK
    /\ Len(matches) > MaxResults
    /\ Len(result.items) = MaxResults

---------------------------------------------------------------------------
(* C5 *)

\* C5: with N messages in the folder and count > N, get_recent_emails
\* returns exactly one summary for each of 1..N when every existing
\* message fetches and parses, none for a number below 1, and no failure.
C5_RecentFewerThanCount ==
    (Returned /\ Cmd = "recent" /\ SelectOK /\ count > N
        /\ \A i \in 1..Len(Fetches) :
              Fetches[i].id \in 1..N => Fetches[i].res = "msg")
    => /\ Len(result.items) = N
       /\ {result.items[i] : i \in 1..Len(result.items)} = 1..N
       /\ ~failed

C5_Witness ==
    /\ Returned
    /\ Cmd = "recent"
    /\ N >= 2
    /\ count > N
    /\ Len(result.items) = N
    /\ \E i \in 1..Len(Fetches) : Fetches[i].id < 1

---------------------------------------------------------------------------
(* C6 *)

\* C6: get_recent_emails issues its fetches for N, N-1, ..., N-count+1 in
\* that order, and the ids of the summaries it returns are strictly
\* descending.
C6_RecentNewestFirst ==
    (Cmd = "recent" /\ SelectOK)
    => LET want == [k \in 1..Max(count, 0) |-> N - k + 1]
       IN  /\ IsPrefix(FetchIds, want)
           /\ Returned
                => /\ FetchIds = want
                   /\ \A i, j \in 1..Len(result.items) :
                         i < j => result.items[i] > result.items[j]

C6_Witness ==
    /\ Returned
    /\ Cmd = "recent"
    /\ Len(result.items) >= 3
    /\ result.items[1] = N

---------------------------------------------------------------------------
(* C7 *)

\* C7: a fetch or search is issued only after this call's select returned
\* OK; when the select fails or answers another status, the operation
\* ends at once with no fetch or search, and reports [] (batch) or None
\* (read).
C7_SelectFirst ==
    /\ \A i \in 1..Len(log) :
          log[i].op \in {"fetch", "search"}
             => \E j \in 1..(i - 1) :
                   log[j].op = "select" /\ log[j].res = "OK"
    /\ SelectNotOK
          => /\ Fetches = <<>>
             /\ LogOps("search") = <<>>
             /\ Returned
             /\ failed
             /\ result = IF Cmd = "read" THEN NoneVal ELSE ListVal(<<>>)

C7_Witness ==
    /\ pc = "exited"
    /\ Cmd = "read"
    /\ \E i \in 1..Len(log) : log[i].op = "select" /\ log[i].res = "NO"
    /\ result = NoneVal

---------------------------------------------------------------------------
(* C8, C9 *)

FoldersListed ==
    /\ Returned
    /\ Cmd = "folders"
    /\ \E i \in 1..Len(log) : log[i].op = "list" /\ log[i].res = "OK"

\* the text after the last '/' of an identifier, surrounding quotes removed
FinalSegment(name) == Strip(Last(Split(name, "/")), {Quote})

\* C8: for every listed folder whose identifier is no key of the mapping
\* table, get_folder_list yields the identifier's final path segment,
\* quoted or not in the listing line, with or without a path separator.
C8_UnmappedFinalSegment ==
    FoldersListed
    => /\ Len(result.items) = Len(listing)
       /\ \A i \in 1..Len(listing) :
             listing[i].name \notin MappedKeys
                => result.items[i] = FinalSegment(listing[i].name)

\* C9: for every listed folder whose identifier is a key of the mapping
\* table, get_folder_list yields exactly the mapped display name, quoted
\* or not in the listing line; one name per entry, in listing order.
C9_MappedDisplayName ==
    FoldersListed
    => /\ Len(result.items) = Len(listing)
       /\ \A i \in 1..Len(listing) :
             listing[i].name \in MappedKeys
                => result.items[i] = FolderMap(listing[i].name)

---------------------------------------------------------------------------
(* C10 *)

===========================================================================
